---- MODULE Spec2Model ----
(***************************************************************************)
(* Gamma exposure (GEX) derivation of GEX-Levels: src/gex_calculations.py, *)
(* with the building of the contract table (src/api_data.py), the series   *)
(* of the plot (src/visualising.py), and the periodic fetch, the ticker    *)
(* search and the history slider of the page (src/dash_integration.py).    *)
(*                                                                         *)
(* Numbers.  The program computes in binary floating point; the model      *)
(* computes the same expressions exactly, in fixed point:                  *)
(*   - a per-contract exposure (columns OI_GEX, vol_GEX) is held in cents, *)
(*     so the factor 0.01 of calculate_gex_value is the cent itself;       *)
(*   - a per-strike value and a net value, which the program rounds to 3   *)
(*     decimals of a billion, are held in thousandths of a billion;        *)
(*   - zero_gamma, a quotient, is held as a fraction [num, den], den > 0.  *)
(* round() of numpy/pandas rounds to the nearest, ties to the even digit.  *)
(***************************************************************************)
EXTENDS Integers, Sequences, FiniteSets

VARIABLES
    pc,                 \* position of the caller in __init__ / calculate_gex_data
    data,               \* the DataFrame object passed in; self.data is the same object
    underlying_price,   \* spot price passed to the constructor
    contract_size,      \* contract size passed to the constructor
    updated,            \* self.updated
    vol_spot_GEXs,      \* self.vol_spot_GEXs : None or a strike-indexed series
    OI_spot_GEXs,       \* self.OI_spot_GEXs
    net_OI_GEX,         \* self.net_OI_GEX
    net_vol_GEX,        \* self.net_vol_GEX
    zero_gamma,         \* self.zero_gamma
    maj_pos_oi_gamma,   \* self.maj_pos_oi_gamma
    maj_pos_vol_gamma,  \* self.maj_pos_vol_gamma
    maj_neg_oi_gamma,   \* self.maj_neg_oi_gamma
    maj_neg_vol_gamma,  \* self.maj_neg_vol_gamma
    calls,              \* the methods calculate_gex_data has called so far, in order
    run,                \* which call of calculate_gex_data on this calculator is running
    first_results,      \* None, or the result attributes as the first call left them
    direct,             \* the positions at which the caller called calculate_major_gamma itself
    api_pc,             \* position in API_Handler.fetch_all_data_to_attributes and after
    response,           \* the option-chain response: its status code and its JSON columns
    quote,              \* what fetch_security_quote returned: None or the last price
    index,              \* the loop variable i of create_df_from_api_data
    option_dict,        \* the seven lists create_df_from_api_data appends to
    api_handler,        \* the attributes of the API_Handler object
    heap,               \* parallel snapshots: the DataFrame each calculator was given
    calc,               \* parallel snapshots: each calculator's position and attributes
    ticker_store,       \* dcc.Store "ticker-store": [ticker, security type]
    ticker_input,       \* the value of the input box "ticker-input"
    n_clicks,           \* clicks of "search-btn" that check_new_ticker has handled
    last_lookup,        \* what yfinance answered to the last get_security_type
    options_data_store, \* dcc.Store "options-data-store": the list of snapshots
    slider_max_value_store, \* dcc.Store "slider-max-value-store"
    interval,           \* the dcc.Interval "interval-component" in "interval-container"
    update_pending,     \* update_data_every_minute has been triggered and not yet started
    callback,           \* the running update_data_every_minute: position and arguments
    visualizer,         \* the Visualizer being constructed: its arguments and its two series
    slider_comp,        \* dcc.Slider "slider-comp": max, value, drag_value
    slider_play_interval, \* dcc.Interval "slider-play-interval": disabled
    play_pause_btn,     \* dbc.Button "play-pause-btn": n_clicks, children
    shown,              \* what the last display_data did
    ctx,                \* the last call of change_slider: ctx.triggered_id and the arguments
    events              \* number of actions of the user on the history controls so far

\* The calculator and its caller.
calc_vars == <<pc, data, underlying_price, contract_size, updated, vol_spot_GEXs,
               OI_spot_GEXs, net_OI_GEX, net_vol_GEX, zero_gamma, maj_pos_oi_gamma,
               maj_pos_vol_gamma, maj_neg_oi_gamma, maj_neg_vol_gamma, calls>>

\* The rest of the program, which the calculator does not touch.
caller_vars == <<run, first_results, direct>>

\* Fetching the option chain.
api_vars == <<api_pc, response, quote, index, option_dict, api_handler>>

\* Snapshot computations running side by side.
par_vars == <<heap, calc>>

\* The page: its stores, its components and its callbacks.
dash_vars == <<ticker_store, ticker_input, n_clicks, last_lookup, options_data_store,
               slider_max_value_store, interval, update_pending, callback>>

\* The plot of a snapshot.
plot_vars == <<visualizer>>

\* The history slider, its buttons and the graph.
slider_vars == <<slider_comp, slider_play_interval, play_pause_btn, shown, ctx, events>>

\* The program outside the calculator and its caller.
outside_vars == <<api_vars, par_vars, dash_vars, plot_vars, slider_vars>>

\* All but the fetching of the option chain.
beside_api_vars == <<calc_vars, caller_vars, par_vars, dash_vars, plot_vars, slider_vars>>

other_vars == <<caller_vars, outside_vars>>

vars == <<calc_vars, other_vars>>

results == <<vol_spot_GEXs, OI_spot_GEXs, net_OI_GEX, net_vol_GEX, zero_gamma,
             maj_pos_oi_gamma, maj_pos_vol_gamma, maj_neg_oi_gamma,
             maj_neg_vol_gamma>>

\* An attribute that may be None holds <<>> for None and <<v>> for the value v.
None == <<>>
Some(v) == <<v>>
Val(o) == o[1]

(***************************************************************************)
(* Bounds of the model and constants of the program.                       *)
(***************************************************************************)
MaxRows == 3            \* rows of an arbitrary contract table (Spec)
MaxStrikes == 4         \* strikes of a one-contract-per-strike chain (SpecChain)
MaxRuns == 2            \* calls of calculate_gex_data on one calculator (SpecRerun)
MaxContracts == 3       \* contracts in an option-chain response (SpecApi)
MaxParRows == 2         \* rows of the table of each parallel snapshot (SpecPar)
MaxDirect == 2          \* calls of calculate_major_gamma by the caller itself (SpecDirect)
MaxSearches == 3        \* runs of check_new_ticker (SpecTicker)
MaxFetches == 3         \* snapshots in the history list (SpecDash, SpecSlider)

CONTRACT_SIZE == 100    \* shares per contract
Billion == 1000000000   \* 10**9
Decimals == 3           \* round(..., 3)
CentsPerDollar == 100   \* the factor 0.01 of calculate_gex_value, inverted

\* Cents in one thousandth of a billion dollars: the unit round(x / 10**9, 3) keeps.
CentsPerUnit == (Billion \div (10 ^ Decimals)) * CentsPerDollar

OptionTypes == {"call", "put"}
Strikes == {100, 105, 110}
Spots == {300, 500}
UpdatedStamp == "2024-11-01 15:30:00"

\* The contracts an arbitrary table is built from.
Quotes == { [gamma |-> 1, open_interest |-> 1, volume |-> 3],
            [gamma |-> 2, open_interest |-> 3, volume |-> 1] }

Contract(t, k, q) ==
    [option_type |-> t, strike |-> k, open_interest |-> q.open_interest,
     volume |-> q.volume, gamma |-> q.gamma, updated |-> UpdatedStamp]

Contracts == { Contract(t, k, q) : t \in OptionTypes, k \in Strikes, q \in Quotes }

\* All tables of at most n rows over a set of contracts, in any row order.
Tables(S, n) == UNION { [1..m -> S] : m \in 0..n }

\* The contracts of a chain: one contract per strike, strikes 100, 105, 110, ...
ChainSpots == {1000}
ChainQuotes == { [gamma |-> 1, open_interest |-> 1, volume |-> 0],
                 [gamma |-> 1, open_interest |-> 2, volume |-> 1],
                 [gamma |-> 1, open_interest |-> 1, volume |-> 2],
                 [gamma |-> 1, open_interest |-> 2, volume |-> 3] }

ChainStrike(i) == 100 + 5 * (i - 1)

Chains(n) ==
    UNION { { [i \in 1..m |-> Contract(f[i][1], ChainStrike(i), f[i][2])] :
              f \in [1..m -> OptionTypes \X ChainQuotes] } : m \in 0..n }

(***************************************************************************)
(* Arithmetic helpers.                                                     *)
(***************************************************************************)
Abs(x) == IF x < 0 THEN -x ELSE x

\* numpy.sign
Sign(x) == IF x < 0 THEN -1 ELSE IF x > 0 THEN 1 ELSE 0

\* round(n / d) for d > 0: to the nearest integer, ties to the even one.
RoundHalfEven(n, d) ==
    LET q == n \div d          \* floor
        r == n % d             \* 0 <= r < d
    IN  IF 2 * r < d THEN q
        ELSE IF 2 * r > d THEN q + 1
        ELSE IF q % 2 = 0 THEN q ELSE q + 1

RECURSIVE SumSeq(_)
SumSeq(s) == IF s = <<>> THEN 0 ELSE Head(s) + SumSeq(Tail(s))

RECURSIVE SortSet(_)
SortSet(S) ==
    IF S = {} THEN <<>>
    ELSE LET m == CHOOSE x \in S : \A y \in S : x <= y
         IN  <<m>> \o SortSet(S \ {m})

Column(df, col) == [i \in 1..Len(df) |-> df[i][col]]

(***************************************************************************)
(* calculate_gex_value: the exposure of one contract, in cents.            *)
(*   gex = underlying_price * gamma * quantity * contract_size             *)
(*         * underlying_price * 0.01 ; negated for a put.                  *)
(***************************************************************************)
calculate_gex_value_unsigned(row, price, size, quantity_type) ==
    price * row.gamma * row[quantity_type] * size * price

calculate_gex_value(row, price, size, quantity_type) ==
    LET gex == price * row.gamma * row[quantity_type] * size * price
    IN  IF row.option_type = "put" THEN -gex ELSE gex

(***************************************************************************)
(* apply_gex_values_to_df: adds the columns OI_GEX and vol_GEX to the      *)
(* DataFrame self.data, one value per row.                                 *)
(***************************************************************************)
WithGexColumns_accumulating(df, price, size) ==
    [i \in 1..Len(df) |->
        [c \in DOMAIN df[i] \cup {"OI_GEX", "vol_GEX"} |->
            IF c = "OI_GEX"
            THEN (IF c \in DOMAIN df[i] THEN df[i][c] ELSE 0)
                    + calculate_gex_value(df[i], price, size, "open_interest")
            ELSE IF c = "vol_GEX"
            THEN (IF c \in DOMAIN df[i] THEN df[i][c] ELSE 0)
                    + calculate_gex_value(df[i], price, size, "volume")
            ELSE df[i][c]]]

WithGexColumns(df, price, size) ==
    [i \in 1..Len(df) |->
        [c \in DOMAIN df[i] \cup {"OI_GEX", "vol_GEX"} |->
            IF c = "OI_GEX"
            THEN calculate_gex_value(df[i], price, size, "open_interest")
            ELSE IF c = "vol_GEX"
            THEN calculate_gex_value(df[i], price, size, "volume")
            ELSE df[i][c]]]

(***************************************************************************)
(* DataFrame.groupby('strike')[col].sum(): one entry per distinct strike,  *)
(* keys sorted ascending, each the sum of the column over the group.       *)
(***************************************************************************)
GroupKeysUnsorted(df) ==
    LET RECURSIVE firsts(_)
        firsts(i) ==
            IF i > Len(df) THEN <<>>
            ELSE IF \E j \in 1..(i - 1) : df[j].strike = df[i].strike
                 THEN firsts(i + 1)
                 ELSE <<df[i].strike>> \o firsts(i + 1)
    IN  firsts(1)

GroupKeys(df) == SortSet({ df[i].strike : i \in 1..Len(df) })

GroupBySum(df, col) ==
    LET keys == GroupKeys(df)
    IN  [n \in 1..Len(keys) |->
            [strike |-> keys[n],
             gex |-> SumSeq(Column(SelectSeq(df, LAMBDA r : r.strike = keys[n]), col))]]

(***************************************************************************)
(* calculate_gex_by_strike: round(groupby sum / 10**9, 3).                 *)
(***************************************************************************)
calculate_gex_by_strike_trunc(df, GEX_type) ==
    LET g == GroupBySum(df, GEX_type)
    IN  [n \in 1..Len(g) |->
            [strike |-> g[n].strike, gex |-> g[n].gex \div CentsPerUnit]]

calculate_gex_by_strike(df, GEX_type) ==
    LET g == GroupBySum(df, GEX_type)
    IN  [n \in 1..Len(g) |->
            [strike |-> g[n].strike, gex |-> RoundHalfEven(g[n].gex, CentsPerUnit)]]

(***************************************************************************)
(* calculate_net_gex: round(column sum / 10**9, 3).                        *)
(***************************************************************************)
calculate_net_gex_of_series(df, GEX_type) ==
    SumSeq(Column(calculate_gex_by_strike(df, GEX_type), "gex"))

calculate_net_gex_default_type(df, GEX_type) ==
    RoundHalfEven(SumSeq(Column(df, "OI_GEX")), CentsPerUnit)

calculate_net_gex(df, GEX_type) ==
    RoundHalfEven(SumSeq(Column(df, GEX_type)), CentsPerUnit)

(***************************************************************************)
(* calculate_zero_gamma, a function of the volume series alone.            *)
(*   zero_cross_idx = np.where(np.diff(np.sign(values)) == 2)[0]           *)
(*   None when zero_cross_idx is empty; otherwise the interpolation is     *)
(*   computed at every index of zero_cross_idx and element [0] returned.   *)
(***************************************************************************)
SignDiff(series, i) == Sign(series[i + 1].gex) - Sign(series[i].gex)

Indices(series) == [i \in 1..(IF Len(series) = 0 THEN 0 ELSE Len(series) - 1) |-> i]

zero_cross_idx_no_change(series) ==
    SelectSeq(Indices(series), LAMBDA i : SignDiff(series, i) = 0)

zero_cross_idx_any_change(series) ==
    SelectSeq(Indices(series), LAMBDA i : Abs(SignDiff(series, i)) = 2)

zero_cross_idx_from_zero(series) ==
    SelectSeq(Indices(series), LAMBDA i : SignDiff(series, i) >= 1)

zero_cross_idx(series) ==
    SelectSeq(Indices(series), LAMBDA i : SignDiff(series, i) = 2)

Interpolate_with_neg_gamma(series, i) ==
    LET neg_gamma == series[i].gex
        pos_gamma == series[i + 1].gex
        neg_strike == series[i].strike
        pos_strike == series[i + 1].strike
    IN  [num |-> pos_strike * (pos_gamma - neg_gamma)
                    - (pos_strike - neg_strike) * neg_gamma,
         den |-> pos_gamma - neg_gamma]

\* pos_strike - ((pos_strike - neg_strike) * pos_gamma / (pos_gamma - neg_gamma))
Interpolate(series, i) ==
    LET neg_gamma == series[i].gex
        pos_gamma == series[i + 1].gex
        neg_strike == series[i].strike
        pos_strike == series[i + 1].strike
    IN  [num |-> pos_strike * (pos_gamma - neg_gamma)
                    - (pos_strike - neg_strike) * pos_gamma,
         den |-> pos_gamma - neg_gamma]

calculate_zero_gamma_last(series) ==
    LET idx == zero_cross_idx(series)
    IN  IF Len(idx) = 0 THEN None
        ELSE Some([n \in 1..Len(idx) |-> Interpolate(series, idx[n])][Len(idx)])

calculate_zero_gamma(series) ==
    LET idx == zero_cross_idx(series)
    IN  IF Len(idx) = 0 THEN None
        ELSE Some([n \in 1..Len(idx) |-> Interpolate(series, idx[n])][1])

\* The series calculate_zero_gamma reads: self.vol_spot_GEXs, its values and index.
zero_gamma_series_oi(vol, oi) == oi

zero_gamma_series(vol, oi) == vol

(***************************************************************************)
(* Series.idxmax / Series.idxmin: the index label of the first occurrence  *)
(* of the maximum / minimum; ValueError on an empty series.                *)
(***************************************************************************)
idxmax_last(series) ==
    LET i == CHOOSE i \in 1..Len(series) :
                 /\ \A j \in 1..Len(series) : series[j].gex <= series[i].gex
                 /\ \A j \in (i + 1)..Len(series) : series[j].gex < series[i].gex
    IN  series[i].strike

idxmax(series) ==
    LET i == CHOOSE i \in 1..Len(series) :
                 /\ \A j \in 1..Len(series) : series[j].gex <= series[i].gex
                 /\ \A j \in 1..(i - 1) : series[j].gex < series[i].gex
    IN  series[i].strike

idxmin(series) ==
    LET i == CHOOSE i \in 1..Len(series) :
                 /\ \A j \in 1..Len(series) : series[j].gex >= series[i].gex
                 /\ \A j \in 1..(i - 1) : series[j].gex > series[i].gex
    IN  series[i].strike

(***************************************************************************)
(* The caller and the calculator.  pc is the next step of the caller:      *)
(*   "unborn"    no calculator has been constructed                        *)
(*   "new"       GEXCalculator(data, underlying_price, contract_size)      *)
(*   "apply" ... "zero_gamma"   the calls of calculate_gex_data, in order  *)
(*   "done"      calculate_gex_data has returned                           *)
(*   "raised"    an exception left the calculator                          *)
(***************************************************************************)
\* calculate_gex_data: the step that follows each step.
StepAfter_spec_order(step) ==
    CASE step = "apply" -> "by_strike_vol"
      [] step = "by_strike_vol" -> "by_strike_oi"
      [] step = "by_strike_oi" -> "net_oi"
      [] step = "net_oi" -> "net_vol"
      [] step = "net_vol" -> "zero_gamma"
      [] step = "zero_gamma" -> "major_gamma"
      [] step = "major_gamma" -> "done"

StepAfter(step) ==
    CASE step = "apply" -> "by_strike_vol"
      [] step = "by_strike_vol" -> "by_strike_oi"
      [] step = "by_strike_oi" -> "major_gamma"
      [] step = "major_gamma" -> "net_oi"
      [] step = "net_oi" -> "net_vol"
      [] step = "net_vol" -> "zero_gamma"
      [] step = "zero_gamma" -> "done"

\* The values of the variables of a part of the program that is not running.
CallerIdle == run = 1 /\ first_results = None /\ direct = <<>>

\* option_dict as create_df_from_api_data creates it.
EmptyOptionDict ==
    [option_type |-> <<>>, strike |-> <<>>, expiration |-> <<>>,
     open_interest |-> <<>>, volume |-> <<>>, gamma |-> <<>>, updated |-> <<>>]

\* API_Handler.__init__
NewApiHandler ==
    [options_data |-> None, spot_price |-> None,
     options_data_date |-> None, options_data_time |-> None]

ApiIdle ==
    /\ api_pc = "idle"
    /\ response = [status_code |-> 200, data |-> <<>>]
    /\ quote = None
    /\ index = 0
    /\ option_dict = EmptyOptionDict
    /\ api_handler = NewApiHandler

ParIdle == heap = << >> /\ calc = << >>

\* create_layout: the stores and the interval of the page, no callback running.
Layout ==
    /\ ticker_store = <<"SPX", "indices">>
    /\ ticker_input = Some("SPX")
    /\ n_clicks = 0
    /\ last_lookup = "none"
    /\ options_data_store = << >>
    /\ slider_max_value_store = 0
    /\ interval = [n_intervals |-> 0, max_intervals |-> 0]
    /\ callback = [pc |-> "idle"]
    /\ slider_comp = [max |-> 0, value |-> 0, drag_value |-> 0]
    /\ slider_play_interval = [disabled |-> TRUE]
    /\ play_pause_btn = [n_clicks |-> 0, children |-> "play_icon"]
    /\ shown = [outcome |-> "prevented"]
    /\ ctx = [triggered_id |-> "none"]
    /\ events = 0

\* The page is not open.
DashIdle == Layout /\ update_pending = FALSE

\* No Visualizer is being constructed.
NoVisualizer == visualizer = [pc |-> "none"]

\* No calculator has been constructed.
CalcUnborn ==
    /\ pc = "unborn"
    /\ calls = << >>
    /\ CallerIdle
    /\ data = << >>
    /\ underlying_price = 0
    /\ contract_size = CONTRACT_SIZE
    /\ updated = None
    /\ vol_spot_GEXs = None
    /\ OI_spot_GEXs = None
    /\ net_OI_GEX = None
    /\ net_vol_GEX = None
    /\ zero_gamma = None
    /\ maj_pos_oi_gamma = None
    /\ maj_pos_vol_gamma = None
    /\ maj_neg_oi_gamma = None
    /\ maj_neg_vol_gamma = None

InitWith(tables, spots) ==
    /\ pc = "new"
    /\ calls = <<>>
    /\ CallerIdle
    /\ ApiIdle
    /\ ParIdle
    /\ DashIdle
    /\ NoVisualizer
    /\ data \in tables
    /\ underlying_price \in spots
    /\ contract_size = CONTRACT_SIZE
    /\ updated = None
    /\ vol_spot_GEXs = None
    /\ OI_spot_GEXs = None
    /\ net_OI_GEX = None
    /\ net_vol_GEX = None
    /\ zero_gamma = None
    /\ maj_pos_oi_gamma = None
    /\ maj_pos_vol_gamma = None
    /\ maj_neg_oi_gamma = None
    /\ maj_neg_vol_gamma = None

Init == InitWith(Tables(Contracts, MaxRows), Spots)

InitChain == InitWith(Chains(MaxStrikes), ChainSpots)

\* __init__: data['updated'].iloc[0] raises IndexError on a table without rows.
Construct ==
    /\ pc = "new"
    /\ IF Len(data) = 0
       THEN /\ pc' = "raised"
            /\ updated' = updated
       ELSE /\ pc' = "apply"
            /\ updated' = Some(data[1].updated)
    /\ vol_spot_GEXs' = None
    /\ OI_spot_GEXs' = None
    /\ net_OI_GEX' = None
    /\ net_vol_GEX' = None
    /\ zero_gamma' = None
    /\ maj_pos_oi_gamma' = None
    /\ maj_pos_vol_gamma' = None
    /\ maj_neg_oi_gamma' = None
    /\ maj_neg_vol_gamma' = None
    /\ UNCHANGED <<data, underlying_price, contract_size, calls, other_vars>>

apply_gex_values_to_df ==
    /\ pc = "apply"
    /\ data' = WithGexColumns(data, underlying_price, contract_size)
    /\ pc' = StepAfter("apply")
    /\ UNCHANGED <<underlying_price, contract_size, updated, results>>
    /\ calls' = Append(calls, "apply_gex_values_to_df")
    /\ UNCHANGED other_vars

\* self.vol_spot_GEXs = self.calculate_gex_by_strike(GEX_type='vol_GEX')
calculate_vol_gex_by_strike ==
    /\ pc = "by_strike_vol"
    /\ vol_spot_GEXs' = Some(calculate_gex_by_strike(data, "vol_GEX"))
    /\ pc' = StepAfter("by_strike_vol")
    /\ UNCHANGED <<data, underlying_price, contract_size, updated, OI_spot_GEXs,
                   net_OI_GEX, net_vol_GEX, zero_gamma, maj_pos_oi_gamma,
                   maj_pos_vol_gamma, maj_neg_oi_gamma, maj_neg_vol_gamma>>
    /\ calls' = Append(calls, "calculate_gex_by_strike(vol_GEX)")
    /\ UNCHANGED other_vars

\* self.OI_spot_GEXs = self.calculate_gex_by_strike(GEX_type='OI_GEX')
calculate_oi_gex_by_strike ==
    /\ pc = "by_strike_oi"
    /\ OI_spot_GEXs' = Some(calculate_gex_by_strike(data, "OI_GEX"))
    /\ pc' = StepAfter("by_strike_oi")
    /\ UNCHANGED <<data, underlying_price, contract_size, updated, vol_spot_GEXs,
                   net_OI_GEX, net_vol_GEX, zero_gamma, maj_pos_oi_gamma,
                   maj_pos_vol_gamma, maj_neg_oi_gamma, maj_neg_vol_gamma>>
    /\ calls' = Append(calls, "calculate_gex_by_strike(OI_GEX)")
    /\ UNCHANGED other_vars

\* if self.vol_spot_GEXs is None or self.OI_spot_GEXs is None: return
series_missing_both(vol, oi) == vol = None /\ oi = None

series_missing(vol, oi) == vol = None \/ oi = None

calculate_major_gamma ==
    /\ pc = "major_gamma"
    /\ IF series_missing(vol_spot_GEXs, OI_spot_GEXs)
       THEN /\ pc' = StepAfter("major_gamma")
            /\ UNCHANGED <<maj_pos_oi_gamma, maj_pos_vol_gamma, maj_neg_oi_gamma,
                           maj_neg_vol_gamma>>
       ELSE IF Len(Val(OI_spot_GEXs)) = 0      \* idxmax raises ValueError
       THEN /\ pc' = "raised"
            /\ UNCHANGED <<maj_pos_oi_gamma, maj_pos_vol_gamma, maj_neg_oi_gamma,
                           maj_neg_vol_gamma>>
       ELSE /\ pc' = StepAfter("major_gamma")
            /\ maj_pos_oi_gamma' = Some(idxmax(Val(OI_spot_GEXs)))
            /\ maj_pos_vol_gamma' = Some(idxmax(Val(vol_spot_GEXs)))
            /\ maj_neg_oi_gamma' = Some(idxmin(Val(OI_spot_GEXs)))
            /\ maj_neg_vol_gamma' = Some(idxmin(Val(vol_spot_GEXs)))
    /\ UNCHANGED <<data, underlying_price, contract_size, updated, vol_spot_GEXs,
                   OI_spot_GEXs, net_OI_GEX, net_vol_GEX, zero_gamma>>
    /\ calls' = Append(calls, "calculate_major_gamma")
    /\ UNCHANGED other_vars

\* self.net_OI_GEX = self.calculate_net_gex(GEX_type='OI_GEX')
calculate_net_oi_gex ==
    /\ pc = "net_oi"
    /\ net_OI_GEX' = Some(calculate_net_gex(data, "OI_GEX"))
    /\ pc' = StepAfter("net_oi")
    /\ UNCHANGED <<data, underlying_price, contract_size, updated, vol_spot_GEXs,
                   OI_spot_GEXs, net_vol_GEX, zero_gamma, maj_pos_oi_gamma,
                   maj_pos_vol_gamma, maj_neg_oi_gamma, maj_neg_vol_gamma>>
    /\ calls' = Append(calls, "calculate_net_gex(OI_GEX)")
    /\ UNCHANGED other_vars

\* self.net_vol_GEX = self.calculate_net_gex(GEX_type='vol_GEX')
calculate_net_vol_gex ==
    /\ pc = "net_vol"
    /\ net_vol_GEX' = Some(calculate_net_gex(data, "vol_GEX"))
    /\ pc' = StepAfter("net_vol")
    /\ UNCHANGED <<data, underlying_price, contract_size, updated, vol_spot_GEXs,
                   OI_spot_GEXs, net_OI_GEX, zero_gamma, maj_pos_oi_gamma,
                   maj_pos_vol_gamma, maj_neg_oi_gamma, maj_neg_vol_gamma>>
    /\ calls' = Append(calls, "calculate_net_gex(vol_GEX)")
    /\ UNCHANGED other_vars

\* self.zero_gamma = self.calculate_zero_gamma()
calculate_zero_gamma_step ==
    /\ pc = "zero_gamma"
    /\ zero_gamma' = calculate_zero_gamma(
                       Val(zero_gamma_series(vol_spot_GEXs, OI_spot_GEXs)))
    /\ pc' = StepAfter("zero_gamma")
    /\ UNCHANGED <<data, underlying_price, contract_size, updated, vol_spot_GEXs,
                   OI_spot_GEXs, net_OI_GEX, net_vol_GEX, maj_pos_oi_gamma,
                   maj_pos_vol_gamma, maj_neg_oi_gamma, maj_neg_vol_gamma>>
    /\ calls' = Append(calls, "calculate_zero_gamma")
    /\ UNCHANGED other_vars

Next ==
    \/ Construct
    \/ apply_gex_values_to_df
    \/ calculate_vol_gex_by_strike
    \/ calculate_oi_gex_by_strike
    \/ calculate_major_gamma
    \/ calculate_net_oi_gex
    \/ calculate_net_vol_gex
    \/ calculate_zero_gamma_step

Spec == Init /\ [][Next]_vars

SpecChain == InitChain /\ [][Next]_vars

(***************************************************************************)
(* Properties.  Spec ranges over arbitrary small tables (rows in any       *)
(* order, several contracts per strike, sums that round); SpecChain over   *)
(* chains of one contract per strike (series long enough for several       *)
(* crossings, zero values and tied extrema).                               *)
(***************************************************************************)
\* The table carries the columns OI_GEX and vol_GEX.
Applied == pc \notin {"new", "raised", "apply"}

Flip(row) ==
    [row EXCEPT !.option_type = IF row.option_type = "put" THEN "call" ELSE "put"]

\* The two series of the calculator that are populated, each with its column.
PopulatedSeries ==
    (IF vol_spot_GEXs = None THEN {} ELSE {<<Val(vol_spot_GEXs), "vol_GEX">>})
    \cup (IF OI_spot_GEXs = None THEN {} ELSE {<<Val(OI_spot_GEXs), "OI_GEX">>})

\* The sum of a column over the rows of the table at strike k, row by row.
RECURSIVE StrikeTotal(_, _, _, _)
StrikeTotal(df, col, k, i) ==
    IF i = 0 THEN 0
    ELSE StrikeTotal(df, col, k, i - 1) + (IF df[i].strike = k THEN df[i][col] ELSE 0)

RECURSIVE TableTotal(_, _, _)
TableTotal(df, col, i) ==
    IF i = 0 THEN 0 ELSE TableTotal(df, col, i - 1) + df[i][col]

\* v (thousandths of a billion) is cents / 10**9 dollars rounded to 3 decimals.
IsRounded(v, cents) ==
    /\ 2 * Abs(v * CentsPerUnit - cents) <= CentsPerUnit
    /\ (2 * Abs(v * CentsPerUnit - cents) = CentsPerUnit => v % 2 = 0)

SeriesSum(series) == TableTotal(series, "gex", Len(series))

\* C1: every row's exposure, for each basis, is
\* spot_price^2 * gamma * quantity * contract_size * 0.01 (held in cents), negated
\* exactly for a put; the same contract with the other option type has the
\* negated exposure, so the two have opposite signs or are both zero.
C1_ExposureFormula ==
    Applied =>
        \A i \in 1..Len(data) :
            LET r == data[i]
                sgn == IF r.option_type = "put" THEN -1 ELSE 1
                base == (underlying_price ^ 2) * r.gamma * contract_size
            IN  /\ r.OI_GEX = sgn * base * r.open_interest
                /\ r.vol_GEX = sgn * base * r.volume
                /\ \A q \in {"open_interest", "volume"} :
                      LET mine == calculate_gex_value(r, underlying_price, contract_size, q)
                          other == calculate_gex_value(Flip(r), underlying_price,
                                                       contract_size, q)
                      IN  /\ other = -mine
                          /\ Sign(other) = -Sign(mine)

C1_Witness ==
    /\ Applied
    /\ \E i, j \in 1..Len(data) :
          /\ data[i].option_type = "call"
          /\ data[j] = [Flip(data[i]) EXCEPT !.OI_GEX = data[j].OI_GEX,
                                             !.vol_GEX = data[j].vol_GEX]
          /\ data[i].vol_GEX > 0 /\ data[j].vol_GEX < 0
          /\ data[i].OI_GEX > 0 /\ data[j].OI_GEX = -data[i].OI_GEX
          /\ data[i].OI_GEX # data[i].vol_GEX

\* C2: the keys of a per-strike series are exactly the distinct strikes of the
\* table, each once, strictly ascending.
C2_SeriesKeys ==
    \A p \in PopulatedSeries :
        LET series == p[1]
        IN  /\ { series[n].strike : n \in 1..Len(series) }
                  = { data[i].strike : i \in 1..Len(data) }
            /\ \A n \in 1..(Len(series) - 1) : series[n].strike < series[n + 1].strike

C2_Witness ==
    /\ vol_spot_GEXs # None /\ OI_spot_GEXs # None
    /\ Len(data) = 3
    /\ data[1].strike > data[2].strike
    /\ data[3].strike = data[1].strike
    /\ Len(Val(vol_spot_GEXs)) = 2
    /\ \E k \in Strikes : \A n \in 1..2 : Val(OI_spot_GEXs)[n].strike # k

\* C3: the value at a strike is the sum of the exposures of the contracts at that
\* strike (and of no other contract), divided by 10**9 and rounded to 3 decimals.
C3_StrikeValue ==
    \A p \in PopulatedSeries :
        \A n \in 1..Len(p[1]) :
            IsRounded(p[1][n].gex, StrikeTotal(data, p[2], p[1][n].strike, Len(data)))

C3_Witness ==
    /\ vol_spot_GEXs # None
    /\ \E n \in 1..Len(Val(vol_spot_GEXs)) :
          LET e == Val(vol_spot_GEXs)[n]
              total == StrikeTotal(data, "vol_GEX", e.strike, Len(data))
          IN  /\ Cardinality({ i \in 1..Len(data) : data[i].strike = e.strike }) = 2
              /\ \E i \in 1..Len(data) : data[i].strike # e.strike
              /\ e.gex # 0
              /\ total % CentsPerUnit # 0
              /\ TableTotal(data, "vol_GEX", Len(data)) # total

\* C4: a net exposure is the sum of the exposures of all rows of the table,
\* divided by 10**9 and rounded to 3 decimals; it is not the sum of the rounded
\* per-strike values.
C4_NetFromRows ==
    /\ net_OI_GEX # None
          => IsRounded(Val(net_OI_GEX), TableTotal(data, "OI_GEX", Len(data)))
    /\ net_vol_GEX # None
          => IsRounded(Val(net_vol_GEX), TableTotal(data, "vol_GEX", Len(data)))

C4_Witness ==
    /\ net_vol_GEX # None /\ net_OI_GEX # None
    /\ Val(net_vol_GEX) # SeriesSum(Val(vol_spot_GEXs))
    /\ Val(net_OI_GEX) # SeriesSum(Val(OI_spot_GEXs))

\* C5: with N distinct strikes, a net exposure and the sum of the per-strike
\* values of the same basis differ by at most 0.001 * N.
C5_NetNearSeriesSum ==
    LET N == Cardinality({ data[i].strike : i \in 1..Len(data) })
    IN  /\ net_OI_GEX # None
              => Abs(Val(net_OI_GEX) - SeriesSum(Val(OI_spot_GEXs))) <= N
        /\ net_vol_GEX # None
              => Abs(Val(net_vol_GEX) - SeriesSum(Val(vol_spot_GEXs))) <= N

C5_Witness ==
    /\ net_vol_GEX # None
    /\ Cardinality({ data[i].strike : i \in 1..Len(data) }) >= 2
    /\ Abs(Val(net_vol_GEX) - SeriesSum(Val(vol_spot_GEXs))) >= 1

\* The volume series has a negative value at position i directly followed by a
\* positive one.
Crossing(series, i) == series[i].gex < 0 /\ series[i + 1].gex > 0

Crossings(series) == { i \in 1..(Len(series) - 1) : Crossing(series, i) }

\* The fraction z is the number a / b.
FractionIs(z, a, b) == z.num * b = a * z.den

Values(series) == [n \in 1..Len(series) |-> series[n].gex]

Keys(series) == [n \in 1..Len(series) |-> series[n].strike]

\* C6: when the volume series has a negative value directly followed by a positive
\* one, zero_gamma is strike[i+1] - (strike[i+1] - strike[i]) * series[i+1]
\* / (series[i+1] - series[i]) at the lowest such i, whatever crossings follow;
\* {100: -2, 105: 3} gives 102 and {100: -1, 105: 2, 110: -3, 115: 1} the
\* crossing of the pair (100, 105).
C6_FirstCrossingInterpolated ==
    pc = "done" =>
        LET series == Val(vol_spot_GEXs)
        IN  /\ \A i \in Crossings(series) :
                  (\A j \in Crossings(series) : i <= j) =>
                      /\ zero_gamma # None
                      /\ FractionIs(Val(zero_gamma),
                             series[i + 1].strike * (series[i + 1].gex - series[i].gex)
                               - (series[i + 1].strike - series[i].strike)
                                   * series[i + 1].gex,
                             series[i + 1].gex - series[i].gex)
            /\ (Keys(series) = <<100, 105>> /\ Values(series) = <<-2, 3>>)
                  => zero_gamma # None /\ FractionIs(Val(zero_gamma), 102, 1)
            /\ (Keys(series) = <<100, 105, 110, 115>> /\ Values(series) = <<-1, 2, -3, 1>>)
                  => zero_gamma # None /\ FractionIs(Val(zero_gamma), 105 * 3 - 5 * 2, 3)

C6_Witness ==
    /\ pc = "done"
    /\ Keys(Val(vol_spot_GEXs)) = <<100, 105, 110, 115>>
    /\ Values(Val(vol_spot_GEXs)) = <<-1, 2, -3, 1>>
    /\ Crossings(Val(vol_spot_GEXs)) = {1, 3}
    /\ zero_gamma # None

\* C7: calculate_zero_gamma returns None, and does not raise, exactly when the
\* volume series has no negative value directly followed by a positive one; so it
\* does for an all-positive series, an all-negative series, a series that only
\* changes from positive to negative, and a series of fewer than 2 strikes.
C7_NoneIffNoCrossing ==
    LET series == Val(vol_spot_GEXs)
        vals == { series[n].gex : n \in 1..Len(series) }
    IN  /\ Len(data) > 0 => pc # "raised"
        /\ pc = "done" =>
              /\ (zero_gamma = None) <=> (Crossings(series) = {})
              /\ (\A v \in vals : v > 0) => zero_gamma = None
              /\ (\A v \in vals : v < 0) => zero_gamma = None
              /\ (\A i \in 1..(Len(series) - 1) :
                      Sign(series[i].gex) # Sign(series[i + 1].gex)
                          => series[i].gex > 0 /\ series[i + 1].gex < 0)
                    => zero_gamma = None
              /\ Len(series) < 2 => zero_gamma = None

C7_Witness ==
    /\ pc = "done"
    /\ zero_gamma = None
    /\ Len(Val(vol_spot_GEXs)) >= 3
    /\ \E i \in 1..(Len(Val(vol_spot_GEXs)) - 1) :
          Val(vol_spot_GEXs)[i].gex > 0 /\ Val(vol_spot_GEXs)[i + 1].gex < 0

\* C8: a strike whose volume value is 0 takes no part in a crossing: zero_gamma is
\* never the interpolation of a pair (negative, 0) or (0, positive), and a series
\* going negative, 0, positive over three consecutive strikes, with no negative
\* value directly followed by a positive one, has zero_gamma None.
C8_ZeroIsInvisible ==
    pc = "done" =>
        LET series == Val(vol_spot_GEXs)
            ThroughZero == \E i \in 1..(Len(series) - 2) :
                               /\ series[i].gex < 0
                               /\ series[i + 1].gex = 0
                               /\ series[i + 2].gex > 0
        IN  /\ (ThroughZero /\ Crossings(series) = {}) => zero_gamma = None
            /\ zero_gamma # None =>
                  \A i \in 1..(Len(series) - 1) :
                      (\/ series[i].gex < 0 /\ series[i + 1].gex = 0
                       \/ series[i].gex = 0 /\ series[i + 1].gex > 0) =>
                          ~ FractionIs(Val(zero_gamma),
                                 series[i + 1].strike * (series[i + 1].gex - series[i].gex)
                                   - (series[i + 1].strike - series[i].strike)
                                       * series[i + 1].gex,
                                 series[i + 1].gex - series[i].gex)

C8_Witness ==
    /\ pc = "done"
    /\ zero_gamma = None
    /\ Crossings(Val(vol_spot_GEXs)) = {}
    /\ \E i \in 1..(Len(Val(vol_spot_GEXs)) - 2) :
          /\ Val(vol_spot_GEXs)[i].gex < 0
          /\ Val(vol_spot_GEXs)[i + 1].gex = 0
          /\ Val(vol_spot_GEXs)[i + 2].gex > 0

\* The strike m holds the greatest (d = 1) or least (d = -1) value of the series and
\* is the lowest strike that does.
LowestExtremum(series, m, d) ==
    \E n \in 1..Len(series) :
        /\ series[n].strike = m
        /\ \A j \in 1..Len(series) :
              /\ d * series[j].gex <= d * series[n].gex
              /\ series[j].gex = series[n].gex => series[j].strike >= m

\* C9: for each basis, the major positive strike holds the maximum of that basis's
\* series and the major negative strike its minimum, the lowest strike among
\* those that share the extremum.
C9_MajorGamma ==
    /\ maj_pos_vol_gamma # None
          => LowestExtremum(Val(vol_spot_GEXs), Val(maj_pos_vol_gamma), 1)
    /\ maj_neg_vol_gamma # None
          => LowestExtremum(Val(vol_spot_GEXs), Val(maj_neg_vol_gamma), -1)
    /\ maj_pos_oi_gamma # None
          => LowestExtremum(Val(OI_spot_GEXs), Val(maj_pos_oi_gamma), 1)
    /\ maj_neg_oi_gamma # None
          => LowestExtremum(Val(OI_spot_GEXs), Val(maj_neg_oi_gamma), -1)

C9_Witness ==
    /\ maj_pos_vol_gamma # None
    /\ Len(Val(vol_spot_GEXs)) >= 3
    /\ \E n \in 1..Len(Val(vol_spot_GEXs)) :
          /\ Val(vol_spot_GEXs)[n].strike > Val(maj_pos_vol_gamma)
          /\ Val(vol_spot_GEXs)[n].gex = Val(vol_spot_GEXs)[2].gex
          /\ Val(vol_spot_GEXs)[2].strike = Val(maj_pos_vol_gamma)
    /\ Val(maj_pos_oi_gamma) # Val(maj_pos_vol_gamma)
    /\ Val(maj_neg_oi_gamma) # Val(maj_neg_vol_gamma)
    /\ Val(maj_neg_vol_gamma) # Val(maj_pos_vol_gamma)

\* C10: for an empty contract table the computation does not fail: it ends with
\* the four major-gamma strikes and zero_gamma None.
C10_EmptyTableYieldsNulls ==
    (Len(data) = 0 /\ pc # "new") =>
        /\ pc # "raised"
        /\ zero_gamma = None
        /\ maj_pos_oi_gamma = None /\ maj_pos_vol_gamma = None
        /\ maj_neg_oi_gamma = None /\ maj_neg_vol_gamma = None

(***************************************************************************)
(* The order of the steps of calculate_gex_data.                           *)
(***************************************************************************)
\* The position of a method in the log of calls, 0 when it was not called.
Position(log, name) ==
    IF \E i \in 1..Len(log) : log[i] = name
    THEN CHOOSE i \in 1..Len(log) : log[i] = name /\ \A j \in 1..(i - 1) : log[j] # name
    ELSE 0

IsPrefix(s, t) == Len(s) <= Len(t) /\ \A i \in 1..Len(s) : s[i] = t[i]

\* C11 as stated: a finished calculate_gex_data has run the per-contract exposure,
\* then the per-strike aggregation and the net exposure, then the zero-gamma, then
\* the major gamma, in that order.
C11_StatedOrder ==
    pc = "done" =>
        LET at(name) == Position(calls, name)
            middle == { at("calculate_gex_by_strike(vol_GEX)"),
                        at("calculate_gex_by_strike(OI_GEX)"),
                        at("calculate_net_gex(OI_GEX)"),
                        at("calculate_net_gex(vol_GEX)") }
        IN  /\ at("apply_gex_values_to_df") = 1
            /\ \A m \in middle : 1 < m /\ m < at("calculate_zero_gamma")
            /\ at("calculate_zero_gamma") < at("calculate_major_gamma")

\* C11, amended: calculate_gex_data calls, each once and none skipped, the
\* per-contract exposure, the per-strike aggregation (volume, then open interest),
\* the major gamma, the net exposure (open interest, then volume) and the
\* zero-gamma, in that order; so the major gamma and the zero-gamma still follow
\* the aggregation that they read, and the net exposure the per-contract exposure.
C11_CodeOrder ==
    LET order == << "apply_gex_values_to_df",
                    "calculate_gex_by_strike(vol_GEX)",
                    "calculate_gex_by_strike(OI_GEX)",
                    "calculate_major_gamma",
                    "calculate_net_gex(OI_GEX)",
                    "calculate_net_gex(vol_GEX)",
                    "calculate_zero_gamma" >>
    IN  /\ IsPrefix(calls, order)
        /\ pc = "done" => calls = order
        /\ pc \in {"new", "apply"} => calls = << >>

C11_Witness ==
    /\ pc = "done"
    /\ Position(calls, "calculate_major_gamma") = 4
    /\ Position(calls, "calculate_zero_gamma") = 7
    /\ zero_gamma # None
    /\ maj_pos_vol_gamma # None

(***************************************************************************)
(* A second call of calculate_gex_data on the same calculator.             *)
(***************************************************************************)
\* The caller calls calculate_gex_data again: the attributes keep the values of
\* the previous call until the steps assign them anew.
calculate_gex_data_again ==
    /\ pc = "done"
    /\ run < MaxRuns
    /\ pc' = "apply"
    /\ run' = run + 1
    /\ first_results' = IF first_results = None THEN Some(results) ELSE first_results
    /\ calls' = << >>
    /\ UNCHANGED <<data, underlying_price, contract_size, updated, results, direct,
                   outside_vars>>

NextRerun == Next \/ calculate_gex_data_again

SpecRerun == Init /\ [][NextRerun]_vars

\* C12: a later call of calculate_gex_data on the same calculator, hence on the
\* same table and spot price, ends with the outputs of the first call: both
\* series, both net values, the zero-gamma and the four extremum strikes.
C12_SecondRunSame ==
    (pc = "done" /\ run >= 2) => results = Val(first_results)

C12_Witness ==
    /\ pc = "done"
    /\ run = 2
    /\ results = Val(first_results)
    /\ Len(Val(vol_spot_GEXs)) >= 2
    /\ zero_gamma # None
    /\ Val(net_OI_GEX) # 0

(***************************************************************************)
(* The caller's table.                                                     *)
(***************************************************************************)
\* C13: a snapshot computation has no side effect on its input: no step of the
\* calculator changes the caller's contract table (its columns, rows or values).
C13_InputTableUntouched == [][data' = data]_vars

(***************************************************************************)
(* src/api_data.py: from the option-chain response to the contract table.  *)
(* A JSON value that may be null is None or Some(v); the table holds v.    *)
(* A date is held as the number of its UTC day, a datetime as its instant  *)
(* with its time zone.  The dump of the response to data_files/data2.json  *)
(* (lines 131-132) writes a file and no variable.                          *)
(***************************************************************************)
StatusCodes == {200, 203, 404}

response_successful(r) == r.status_code \in {200, 203}

\* datetime.fromtimestamp(unix_time, tz=utc), or its strftime("%Y-%m-%d")
convert_unix_to_date(unix_time, exact_time) ==
    IF exact_time
    THEN [instant |-> unix_time, tz |-> "UTC"]
    ELSE [utc_day |-> unix_time \div 86400]

convert_datetime_to_local_time(datetime_object) ==
    [instant |-> datetime_object.instant, tz |-> "local"]

\* process_contract_data(data, index), index counted from 0
process_contract_data(d, i) ==
    [contract_type |-> d[i + 1].side,
     strike_price |-> d[i + 1].strike,
     expiration_date |-> convert_unix_to_date(d[i + 1].expiration, FALSE),
     volume |-> d[i + 1].volume,
     open_interest |-> d[i + 1].openInterest,
     gamma |-> d[i + 1].gamma,
     updated |-> convert_datetime_to_local_time(
                     convert_unix_to_date(d[i + 1].updated, TRUE))]

\* any(var is None for var in [volume, open_interest, gamma])
misses_data_if_falsy(c) ==
    \E v \in {c.volume, c.open_interest, c.gamma} : v = None \/ Val(v) = 0

misses_data(c) ==
    \E v \in {c.volume, c.open_interest, c.gamma} : v = None

\* pd.DataFrame(option_dict): row n holds the n-th element of every list.
DataFrame(d) ==
    [n \in 1..Len(d.option_type) |-> [c \in DOMAIN d |-> d[c][n]]]

\* The responses of the option-chain endpoint: contract i has the strike, the
\* expiration and the update time of its position, and any of these quotes.
ApiSpots == {300}
ApiQuotes ==
    { [side |-> "call", volume |-> None,    openInterest |-> Some(1), gamma |-> Some(1)],
      [side |-> "put",  volume |-> Some(1), openInterest |-> None,    gamma |-> Some(1)],
      [side |-> "call", volume |-> Some(1), openInterest |-> Some(1), gamma |-> None],
      [side |-> "put",  volume |-> Some(0), openInterest |-> Some(0), gamma |-> Some(0)],
      [side |-> "put",  volume |-> Some(3), openInterest |-> Some(2), gamma |-> Some(1)],
      [side |-> "call", volume |-> Some(3), openInterest |-> Some(2), gamma |-> Some(1)] }

ApiContract(i, q) ==
    [side |-> q.side, strike |-> ChainStrike(i),
     expiration |-> 1731628800 + 86400 * i + 3600,
     volume |-> q.volume, openInterest |-> q.openInterest, gamma |-> q.gamma,
     updated |-> 1730475000 + i]

ApiBodies(n) ==
    UNION { { [i \in 1..m |-> ApiContract(i, f[i])] : f \in [1..m -> ApiQuotes] } :
            m \in 0..n }

ApiResponses(n) ==
    { [status_code |-> c, data |-> IF c \in {200, 203} THEN b ELSE <<>>] :
        c \in StatusCodes, b \in ApiBodies(n) }

InitApi ==
    /\ CalcUnborn
    /\ ParIdle
    /\ DashIdle
    /\ NoVisualizer
    /\ api_pc = "fetch"
    /\ response \in ApiResponses(MaxContracts)
    /\ quote \in {None} \cup { Some(p) : p \in ApiSpots }
    /\ index = 0
    /\ option_dict = EmptyOptionDict
    /\ api_handler = NewApiHandler

\* fetch_all_data_to_attributes, up to the call of create_df_from_api_data: an
\* unsuccessful response is reported and the method returns.
fetch_all_data_to_attributes ==
    /\ api_pc = "fetch"
    /\ IF response_successful(response)
       THEN /\ api_pc' = "loop"
            /\ index' = 0
            /\ option_dict' = EmptyOptionDict
       ELSE /\ api_pc' = "returned"
            /\ UNCHANGED <<index, option_dict>>
    /\ UNCHANGED <<response, quote, api_handler, beside_api_vars>>

\* One iteration of the loop of create_df_from_api_data.
create_df_from_api_data_iteration ==
    /\ api_pc = "loop"
    /\ index < Len(response.data)
    /\ LET c == process_contract_data(response.data, index)
       IN  option_dict' =
             IF misses_data(c) THEN option_dict
             ELSE [option_type |-> Append(option_dict.option_type, c.contract_type),
                   strike |-> Append(option_dict.strike, c.strike_price),
                   expiration |-> Append(option_dict.expiration, c.expiration_date),
                   open_interest |-> Append(option_dict.open_interest, Val(c.open_interest)),
                   volume |-> Append(option_dict.volume, Val(c.volume)),
                   gamma |-> Append(option_dict.gamma, Val(c.gamma)),
                   updated |-> Append(option_dict.updated, c.updated)]
    /\ index' = index + 1
    /\ UNCHANGED <<api_pc, response, quote, api_handler, beside_api_vars>>

\* create_df_from_api_data returns the DataFrame; fetch_all_data_to_attributes
\* stores it with the quote, then reads the first row's update time: IndexError
\* on a table without rows.
store_options_data ==
    /\ api_pc = "loop"
    /\ index = Len(response.data)
    /\ LET options_df == DataFrame(option_dict)
           stored == [api_handler EXCEPT !.options_data = Some(options_df),
                                         !.spot_price = quote]
       IN  IF Len(options_df) = 0
           THEN /\ api_handler' = stored
                /\ api_pc' = "raised"
           ELSE /\ api_handler' =
                     [stored EXCEPT
                        !.options_data_date = Some([strftime |-> "%d/%m/%Y",
                                                    of |-> options_df[1].updated]),
                        !.options_data_time = Some([strftime |-> "%H:%M:%S %p",
                                                    of |-> options_df[1].updated])]
                /\ api_pc' = "returned"
    /\ UNCHANGED <<response, quote, index, option_dict, beside_api_vars>>

\* fetch_new_gex_snapshot hands the handler's table and quote to a new calculator.
\* Without a table (options_data None) the constructor raises TypeError; without
\* a quote (spot_price None) the constructor succeeds and calculate_gex_data then
\* raises TypeError in calculate_gex_value, before a column is assigned.
new_GEXCalculator ==
    /\ api_pc = "returned"
    /\ pc = "unborn"
    /\ api_pc' = "handed"
    /\ IF api_handler.options_data = None
       THEN /\ pc' = "raised"
            /\ UNCHANGED <<data, underlying_price, updated>>
       ELSE IF api_handler.spot_price = None
       THEN /\ pc' = "raised"
            /\ data' = Val(api_handler.options_data)
            /\ updated' = Some(Val(api_handler.options_data)[1].updated)
            /\ UNCHANGED underlying_price
       ELSE /\ pc' = "new"
            /\ data' = Val(api_handler.options_data)
            /\ underlying_price' = Val(api_handler.spot_price)
            /\ UNCHANGED updated
    /\ UNCHANGED <<contract_size, results, calls, caller_vars, par_vars, dash_vars,
                   plot_vars, slider_vars,
                   response, quote, index, option_dict, api_handler>>

NextApi ==
    \/ fetch_all_data_to_attributes
    \/ create_df_from_api_data_iteration
    \/ store_options_data
    \/ new_GEXCalculator
    \/ Next

SpecApi == InitApi /\ [][NextApi]_vars

\* A contract of the response with volume, open interest and gamma all present.
Complete(c) == c.volume # None /\ c.openInterest # None /\ c.gamma # None

\* The table row that carries the fields of a contract of the response.
RowOf(c, row) ==
    /\ row.option_type = c.side
    /\ row.strike = c.strike
    /\ row.volume = Val(c.volume)
    /\ row.open_interest = Val(c.openInterest)
    /\ row.gamma = Val(c.gamma)
    /\ row.expiration.utc_day * 86400 <= c.expiration
    /\ c.expiration < (row.expiration.utc_day + 1) * 86400
    /\ row.updated.instant = c.updated

\* C14: the table built from a response holds exactly the contracts of the response
\* whose volume, open interest and gamma are all non-null (0 counts as present),
\* in their original order, each row with the fields of one contract; and it is
\* this table that the calculator receives.
C14_CompleteContractsOnly ==
    /\ api_handler.options_data # None =>
          LET kept == SelectSeq(response.data, Complete)
              options_df == Val(api_handler.options_data)
          IN  /\ Len(options_df) = Len(kept)
              /\ \A n \in 1..Len(kept) : RowOf(kept[n], options_df[n])
    /\ pc \notin {"unborn", "raised"} =>
          /\ Len(data) = Len(Val(api_handler.options_data))
          /\ \A n \in 1..Len(data) :
                \A c \in DOMAIN Val(api_handler.options_data)[n] :
                    data[n][c] = Val(api_handler.options_data)[n][c]

C14_Witness ==
    /\ pc = "done"
    /\ Len(response.data) = 3
    /\ ~ Complete(response.data[2])
    /\ response.data[1].volume = Some(0)
    /\ Len(data) = 2
    /\ data[1].volume = 0 /\ data[1].strike = ChainStrike(1)
    /\ data[2].volume = 3 /\ data[2].strike = ChainStrike(3)

(***************************************************************************)
(* Snapshot computations side by side: fetch_new_gex_snapshot builds, per  *)
(* call, a DataFrame and a GEXCalculator on it; the steps of the           *)
(* calculators interleave.  heap[r] is DataFrame object r, calc[k] the     *)
(* attributes of calculator k, calc[k].data the object it refers to.       *)
(***************************************************************************)
CalcIds == {1, 2}

\* The DataFrame object calculator k is given: each snapshot's own.
table_of_first(k) == 1

table_of(k) == k

\* calculate_gex_data as one function of the table, spot price and contract size.
RunAlone(df, price, size) ==
    LET t == WithGexColumns(df, price, size)
        vol == calculate_gex_by_strike(t, "vol_GEX")
        oi == calculate_gex_by_strike(t, "OI_GEX")
    IN  [vol_spot_GEXs |-> Some(vol),
         OI_spot_GEXs |-> Some(oi),
         maj_pos_vol_gamma |-> Some(idxmax(vol)),
         maj_pos_oi_gamma |-> Some(idxmax(oi)),
         maj_neg_vol_gamma |-> Some(idxmin(vol)),
         maj_neg_oi_gamma |-> Some(idxmin(oi)),
         net_OI_GEX |-> Some(calculate_net_gex(t, "OI_GEX")),
         net_vol_GEX |-> Some(calculate_net_gex(t, "vol_GEX")),
         zero_gamma |-> calculate_zero_gamma(zero_gamma_series(vol, oi))]

ResultNames ==
    {"vol_spot_GEXs", "OI_spot_GEXs", "net_OI_GEX", "net_vol_GEX", "zero_gamma",
     "maj_pos_oi_gamma", "maj_pos_vol_gamma", "maj_neg_oi_gamma", "maj_neg_vol_gamma"}

\* A calculator about to run __init__ on DataFrame object r.
NewCalc(r, price, size) ==
    [c \in ResultNames \cup {"pc", "data", "underlying_price", "contract_size", "updated"} |->
        CASE c = "pc" -> "new"
          [] c = "data" -> r
          [] c = "underlying_price" -> price
          [] c = "contract_size" -> size
          [] OTHER -> None]

\* The next step of a calculator c whose table is df: the calculator and the
\* table after it.
StepOf(c, df) ==
    CASE c.pc = "new" ->
            [df |-> df,
             c |-> IF Len(df) = 0 THEN [c EXCEPT !.pc = "raised"]
                   ELSE [c EXCEPT !.pc = "apply", !.updated = Some(df[1].updated)]]
      [] c.pc = "apply" ->
            [df |-> WithGexColumns(df, c.underlying_price, c.contract_size),
             c |-> [c EXCEPT !.pc = StepAfter("apply")]]
      [] c.pc = "by_strike_vol" ->
            [df |-> df,
             c |-> [c EXCEPT !.pc = StepAfter("by_strike_vol"),
                             !.vol_spot_GEXs = Some(calculate_gex_by_strike(df, "vol_GEX"))]]
      [] c.pc = "by_strike_oi" ->
            [df |-> df,
             c |-> [c EXCEPT !.pc = StepAfter("by_strike_oi"),
                             !.OI_spot_GEXs = Some(calculate_gex_by_strike(df, "OI_GEX"))]]
      [] c.pc = "major_gamma" ->
            [df |-> df,
             c |-> IF series_missing(c.vol_spot_GEXs, c.OI_spot_GEXs)
                   THEN [c EXCEPT !.pc = StepAfter("major_gamma")]
                   ELSE IF Len(Val(c.vol_spot_GEXs)) = 0 \/ Len(Val(c.OI_spot_GEXs)) = 0
                   THEN [c EXCEPT !.pc = "raised"]
                   ELSE [c EXCEPT !.pc = StepAfter("major_gamma"),
                                  !.maj_pos_vol_gamma = Some(idxmax(Val(c.vol_spot_GEXs))),
                                  !.maj_pos_oi_gamma = Some(idxmax(Val(c.OI_spot_GEXs))),
                                  !.maj_neg_vol_gamma = Some(idxmin(Val(c.vol_spot_GEXs))),
                                  !.maj_neg_oi_gamma = Some(idxmin(Val(c.OI_spot_GEXs)))]]
      [] c.pc = "net_oi" ->
            [df |-> df,
             c |-> [c EXCEPT !.pc = StepAfter("net_oi"),
                             !.net_OI_GEX = Some(calculate_net_gex(df, "OI_GEX"))]]
      [] c.pc = "net_vol" ->
            [df |-> df,
             c |-> [c EXCEPT !.pc = StepAfter("net_vol"),
                             !.net_vol_GEX = Some(calculate_net_gex(df, "vol_GEX"))]]
      [] c.pc = "zero_gamma" ->
            [df |-> df,
             c |-> [c EXCEPT !.pc = StepAfter("zero_gamma"),
                             !.zero_gamma = calculate_zero_gamma(
                                 Val(zero_gamma_series(c.vol_spot_GEXs, c.OI_spot_GEXs)))]]

\* The contracts and spot prices of the snapshots.
ParContracts ==
    { Contract("put", 100, [gamma |-> 1, open_interest |-> 1, volume |-> 3]),
      Contract("call", 105, [gamma |-> 1, open_interest |-> 1, volume |-> 3]),
      Contract("call", 100, [gamma |-> 2, open_interest |-> 3, volume |-> 1]),
      Contract("put", 110, [gamma |-> 2, open_interest |-> 3, volume |-> 1]) }

ParSpot(k) == IF k = 1 THEN 300 ELSE 500

InitPar ==
    /\ CalcUnborn
    /\ ApiIdle
    /\ DashIdle
    /\ NoVisualizer
    /\ heap \in [CalcIds -> Tables(ParContracts, MaxParRows)]
    /\ calc = [k \in CalcIds |-> NewCalc(table_of(k), ParSpot(k), CONTRACT_SIZE)]

\* Calculator k takes its next step.
calculator_step(k) ==
    /\ calc[k].pc \notin {"done", "raised"}
    /\ LET after == StepOf(calc[k], heap[calc[k].data])
       IN  /\ calc' = [calc EXCEPT ![k] = after.c]
           /\ heap' = [heap EXCEPT ![calc[k].data] = after.df]
    /\ UNCHANGED <<calc_vars, caller_vars, api_vars, dash_vars, plot_vars, slider_vars>>

NextPar == \E k \in CalcIds : calculator_step(k)

SpecPar == InitPar /\ [][NextPar]_vars

\* The columns of a table that the calculator is given.
InputOf(df) ==
    [i \in 1..Len(df) |-> [c \in DOMAIN df[i] \ {"OI_GEX", "vol_GEX"} |-> df[i][c]]]

Denominators(series) ==
    LET idx == zero_cross_idx(series)
    IN  { Interpolate(series, idx[n]).den : n \in 1..Len(idx) }

\* C16: wherever calculate_zero_gamma interpolates, the denominator
\* series[i+1] - series[i] is strictly positive, and so is that of the value it
\* returns: the division never has a zero divisor.
C16_DenominatorPositive ==
    /\ pc = "done" => \A d \in Denominators(Val(vol_spot_GEXs)) : d > 0
    /\ zero_gamma # None => Val(zero_gamma).den > 0

C16_Witness ==
    /\ pc = "done"
    /\ zero_gamma # None
    /\ Cardinality(Denominators(Val(vol_spot_GEXs))) >= 2
    /\ Val(zero_gamma).den >= 3

(***************************************************************************)
(* calculate_major_gamma called by the caller itself.  Here the caller     *)
(* performs the statements of calculate_gex_data one at a time and may     *)
(* call calculate_major_gamma between any two of them.                     *)
(***************************************************************************)
\* calculate_major_gamma, called at the caller's position pc.  Past the guard,
\* idxmax of None raises AttributeError and idxmax of an empty series ValueError.
call_calculate_major_gamma ==
    /\ pc \notin {"unborn", "new", "raised"}
    /\ Len(direct) < MaxDirect
    /\ direct' = Append(direct, pc)
    /\ IF series_missing(vol_spot_GEXs, OI_spot_GEXs)
       THEN UNCHANGED <<pc, maj_pos_oi_gamma, maj_pos_vol_gamma, maj_neg_oi_gamma,
                        maj_neg_vol_gamma>>
       ELSE IF \/ vol_spot_GEXs = None \/ OI_spot_GEXs = None
               \/ Len(Val(vol_spot_GEXs)) = 0 \/ Len(Val(OI_spot_GEXs)) = 0
       THEN /\ pc' = "raised"
            /\ UNCHANGED <<maj_pos_oi_gamma, maj_pos_vol_gamma, maj_neg_oi_gamma,
                           maj_neg_vol_gamma>>
       ELSE /\ pc' = pc
            /\ maj_pos_oi_gamma' = Some(idxmax(Val(OI_spot_GEXs)))
            /\ maj_pos_vol_gamma' = Some(idxmax(Val(vol_spot_GEXs)))
            /\ maj_neg_oi_gamma' = Some(idxmin(Val(OI_spot_GEXs)))
            /\ maj_neg_vol_gamma' = Some(idxmin(Val(vol_spot_GEXs)))
    /\ UNCHANGED <<data, underlying_price, contract_size, updated, vol_spot_GEXs,
                   OI_spot_GEXs, net_OI_GEX, net_vol_GEX, zero_gamma, calls, run,
                   first_results, outside_vars>>

\* One calculator on a small table.
InitSmall == InitWith(Tables(ParContracts, MaxParRows), Spots)

SpecSmall == InitSmall /\ [][Next]_vars

NextDirect == Next \/ call_calculate_major_gamma

SpecDirect == InitSmall /\ [][NextDirect]_vars

\* C17: a call of calculate_major_gamma made while the volume series or the
\* open-interest series is still None returns without raising and leaves the four
\* extremum strikes as they were, also the two of a series that is populated; on
\* a calculator whose series were never populated they stay None.
C17_SilentReturn ==
    [][(direct' # direct /\ (vol_spot_GEXs = None \/ OI_spot_GEXs = None)) =>
          /\ pc' = pc
          /\ maj_pos_oi_gamma' = maj_pos_oi_gamma
          /\ maj_pos_vol_gamma' = maj_pos_vol_gamma
          /\ maj_neg_oi_gamma' = maj_neg_oi_gamma
          /\ maj_neg_vol_gamma' = maj_neg_vol_gamma
          /\ pc \in {"apply", "by_strike_vol", "by_strike_oi"} =>
                /\ maj_pos_oi_gamma' = None /\ maj_pos_vol_gamma' = None
                /\ maj_neg_oi_gamma' = None /\ maj_neg_vol_gamma' = None]_vars

C17_Witness ==
    /\ direct = <<"apply", "by_strike_oi">>
    /\ pc = "by_strike_oi"
    /\ vol_spot_GEXs # None /\ Len(Val(vol_spot_GEXs)) = 2
    /\ OI_spot_GEXs = None
    /\ maj_pos_vol_gamma = None /\ maj_neg_vol_gamma = None
    /\ maj_pos_oi_gamma = None /\ maj_neg_oi_gamma = None

(***************************************************************************)
(* The basis of the zero-gamma.                                            *)
(***************************************************************************)
OpenInterests == {0, 1, 3}

\* The tables that agree with df on every field but open_interest.
OpenInterestVariants(df) ==
    { [i \in 1..Len(df) |-> [df[i] EXCEPT !.open_interest = f[i]]] :
        f \in [1..Len(df) -> OpenInterests] }

\* The outputs the claim is about.
VolumeOutputs(r) ==
    [name \in {"zero_gamma", "vol_spot_GEXs", "net_vol_GEX", "maj_pos_vol_gamma",
               "maj_neg_vol_gamma"} |-> r[name]]

\* C18: the outputs of a finished calculate_gex_data are those of RunAlone on the
\* table it was given, and every table that differs from it in open_interest
\* only (same spot price and contract size) yields the same zero_gamma, the same
\* volume series, the same net volume exposure and the same volume extrema.
C18_VolumeBasisOnly ==
    pc = "done" =>
        /\ RunAlone(InputOf(data), underlying_price, contract_size)
              = [vol_spot_GEXs |-> vol_spot_GEXs,
                 OI_spot_GEXs |-> OI_spot_GEXs,
                 net_OI_GEX |-> net_OI_GEX,
                 net_vol_GEX |-> net_vol_GEX,
                 zero_gamma |-> zero_gamma,
                 maj_pos_oi_gamma |-> maj_pos_oi_gamma,
                 maj_pos_vol_gamma |-> maj_pos_vol_gamma,
                 maj_neg_oi_gamma |-> maj_neg_oi_gamma,
                 maj_neg_vol_gamma |-> maj_neg_vol_gamma]
        /\ \A other \in OpenInterestVariants(InputOf(data)) :
              VolumeOutputs(RunAlone(other, underlying_price, contract_size))
                = [zero_gamma |-> zero_gamma,
                   vol_spot_GEXs |-> vol_spot_GEXs,
                   net_vol_GEX |-> net_vol_GEX,
                   maj_pos_vol_gamma |-> maj_pos_vol_gamma,
                   maj_neg_vol_gamma |-> maj_neg_vol_gamma]

C18_Witness ==
    /\ pc = "done"
    /\ zero_gamma # None
    /\ calculate_zero_gamma(Val(OI_spot_GEXs)) = None
    /\ \E other \in OpenInterestVariants(InputOf(data)) :
          LET there == RunAlone(other, underlying_price, contract_size)
          IN  /\ calculate_zero_gamma(Val(there.OI_spot_GEXs)) # None
              /\ there.OI_spot_GEXs # OI_spot_GEXs

(***************************************************************************)
(* src/dash_integration.py: the ticker search.                             *)
(***************************************************************************)
Tickers == {"SPX", "AAPL", "QQQ"}

\* What yf.Ticker(ticker).info answers: a quoteType, no quoteType ("missing"),
\* or an exception ("raises").
Lookups == {"INDEX", "MUTUALFUND", "EQUITY", "ETF", "CRYPTOCURRENCY", "missing", "raises"}

get_security_type_with_crypto(answer) ==
    IF answer \in {"INDEX", "MUTUALFUND"} THEN "indices"
    ELSE IF answer \in {"EQUITY", "ETF", "CRYPTOCURRENCY"} THEN "stocks"
    ELSE "not_a_stock_or_index"

get_security_type(answer) ==
    IF answer \in {"INDEX", "MUTUALFUND"} THEN "indices"
    ELSE IF answer \in {"EQUITY", "ETF"} THEN "stocks"
    ELSE "not_a_stock_or_index"

\* The user edits the input box, or empties it.
type_ticker ==
    /\ ticker_input' \in {None} \cup { Some(t) : t \in Tickers }
    /\ ticker_input' # ticker_input
    /\ UNCHANGED <<ticker_store, n_clicks, last_lookup, options_data_store,
                   slider_max_value_store, interval, update_pending, callback,
                   calc_vars, caller_vars, api_vars, par_vars, plot_vars,
                   slider_vars>>

\* check_new_ticker, run at page load and at every click of "search-btn".  With
\* an empty input box the lookup raises inside yfinance.
check_new_ticker ==
    /\ n_clicks < MaxSearches
    /\ n_clicks' = n_clicks + 1
    /\ LET old_ticker == ticker_store[1]
       IN  IF ticker_input = Some(old_ticker)
           THEN UNCHANGED <<ticker_store, last_lookup>>
           ELSE \E answer \in Lookups :
                   /\ ticker_input = None => answer = "raises"
                   /\ last_lookup' = answer
                   /\ IF get_security_type(answer) = "not_a_stock_or_index"
                      THEN UNCHANGED ticker_store
                      ELSE ticker_store' = <<Val(ticker_input), get_security_type(answer)>>
    /\ UNCHANGED <<ticker_input, options_data_store, slider_max_value_store, interval,
                   update_pending, callback, calc_vars, caller_vars, api_vars, par_vars,
                   plot_vars, slider_vars>>

\* The page, with nothing fetched.
InitTicker == CalcUnborn /\ ApiIdle /\ ParIdle /\ DashIdle /\ NoVisualizer

NextTicker == type_ticker \/ check_new_ticker

SpecTicker == InitTicker /\ [][NextTicker]_vars

\* C19: a run of check_new_ticker replaces the ticker store by [new ticker,
\* security type] when the entered ticker differs from the stored one and its
\* quote type is INDEX or MUTUALFUND ('indices') or EQUITY or ETF ('stocks'); in
\* every other case, and in every other step, the ticker store stays as it is.
C19_TickerStore ==
    [][IF /\ n_clicks' # n_clicks
          /\ ticker_input # None
          /\ ticker_input # Some(ticker_store[1])
          /\ last_lookup' \in {"INDEX", "MUTUALFUND", "EQUITY", "ETF"}
       THEN ticker_store' =
               <<Val(ticker_input),
                 IF last_lookup' \in {"INDEX", "MUTUALFUND"} THEN "indices" ELSE "stocks">>
       ELSE ticker_store' = ticker_store]_vars

C19_Witness ==
    /\ n_clicks = 3
    /\ ticker_store = <<"AAPL", "stocks">>
    /\ ticker_input = Some("AAPL")
    /\ last_lookup = "CRYPTOCURRENCY"

(***************************************************************************)
(* src/visualising.py: the series of the plot.  Visualizer.__init__ cuts   *)
(* each of the two per-strike series to a window around the underlying     *)
(* price with limit_spot_GEX_for_plot.  Positions are counted from 0, as   *)
(* pandas counts them.                                                     *)
(***************************************************************************)
LimitNumber == 40       \* limit_number, the default of limit_spot_GEX_for_plot
MaxPlotStrikes == 44    \* strikes of a series handed to the Visualizer (SpecPlot)

\* Series.argmin: the position of the first occurrence of the minimum.
argmin(values) ==
    CHOOSE p \in 0..(Len(values) - 1) :
        /\ \A q \in 0..(Len(values) - 1) : values[p + 1] <= values[q + 1]
        /\ \A q \in 0..(p - 1) : values[q + 1] > values[p + 1]

\* A bound of a Python slice over n elements: a negative bound counts from the
\* end, and every bound is clipped to 0..n.
slice_bound(x, n) ==
    IF x < 0 THEN (IF x + n < 0 THEN 0 ELSE x + n)
    ELSE IF x > n THEN n ELSE x

\* Series.iloc[start:stop]
iloc(series, start, stop) ==
    LET a == slice_bound(start, Len(series))
        b == slice_bound(stop, Len(series))
    IN  [k \in 1..(IF b > a THEN b - a ELSE 0) |-> series[a + k]]

limit_spot_GEX_for_plot(spot_GEX, price, limit_number) ==
    LET strike_list == [i \in 1..Len(spot_GEX) |-> spot_GEX[i].strike]
        closest_index == argmin([i \in 1..Len(strike_list) |->
                                    Abs(strike_list[i] - price)])
    IN  iloc(spot_GEX, closest_index - (limit_number \div 2),
             closest_index + (limit_number \div 2))

\* The series handed to the Visualizer: both have the strikes of the table, in
\* ascending order, and at least one strike (a calculator has a first row).
PlotStrike(i) == 100 + 10 * (i - 1)

PlotSeries(n, sign) == [i \in 1..n |-> [strike |-> PlotStrike(i), gex |-> sign * i]]

\* Prices below the first strike, at every strike, half way between every two
\* neighbours, and above the last strike.
PlotPrices(n) == { 95 + 5 * j : j \in 0..(2 * n + 1) }

InitPlot ==
    /\ CalcUnborn
    /\ ApiIdle
    /\ ParIdle
    /\ DashIdle
    /\ \E n \in 1..MaxPlotStrikes : \E price \in PlotPrices(n) :
          visualizer = [pc |-> "new",
                        vol_spot_GEXs |-> PlotSeries(n, 1),
                        OI_spot_GEXs |-> PlotSeries(n, -1),
                        underlying_price |-> price,
                        given |-> PlotSeries(n, 1)]

\* Visualizer.__init__: self.vol_spot_GEXs and self.OI_spot_GEXs are the cut series.
Visualizer_init ==
    /\ visualizer.pc = "new"
    /\ visualizer' =
          [visualizer EXCEPT
              !.pc = "built",
              !.vol_spot_GEXs = limit_spot_GEX_for_plot(@, visualizer.underlying_price,
                                                        LimitNumber),
              !.OI_spot_GEXs = limit_spot_GEX_for_plot(@, visualizer.underlying_price,
                                                       LimitNumber)]
    /\ UNCHANGED <<calc_vars, caller_vars, api_vars, par_vars, dash_vars, slider_vars>>

NextPlot == Visualizer_init

SpecPlot == InitPlot /\ [][NextPlot]_vars

\* The least distance of a strike of the series from the price.
LeastDistance(series, price) ==
    CHOOSE d \in { Abs(series[i].strike - price) : i \in 1..Len(series) } :
        \A i \in 1..Len(series) : d <= Abs(series[i].strike - price)

\* C21: the series the Visualizer keeps is a run of at most limit_number
\* consecutive strikes of the series it was given, and a strike closest to the
\* underlying price is among them, wherever in the series that strike lies.
C21_WindowHoldsClosest ==
    visualizer.pc = "built" =>
        LET series == visualizer.given
            window == visualizer.vol_spot_GEXs
            price == visualizer.underlying_price
        IN  /\ Len(window) <= LimitNumber
            /\ \E a \in 0..Len(series) :
                  /\ a + Len(window) <= Len(series)
                  /\ window = [k \in 1..Len(window) |-> series[a + k]]
            /\ \E k \in 1..Len(window) :
                  Abs(window[k].strike - price) = LeastDistance(series, price)

(***************************************************************************)
(* src/dash_integration.py: the history slider.  change_slider has as      *)
(* inputs the slider-max store, the slider value, the five buttons and the *)
(* play interval; the browser calls it when one of them changes, with the  *)
(* properties as they are then, and writes what it returns.  An output of  *)
(* dash.no_update is None here, a written value v is Some(v).  A call that *)
(* reaches the end of the function returns nothing: Dash rejects that for  *)
(* a callback with several outputs and writes none of them.                *)
(***************************************************************************)
MaxEvents == 3          \* actions of the user on the history controls (SpecSlider)
MaxSliderValue == 4     \* the play interval is followed up to this slider value

playing_on_even(play_pause_clicks) == play_pause_clicks % 2 = 0

playing(play_pause_clicks) == play_pause_clicks % 2 = 1

SliderReturn(max, value, disabled, clicks) ==
    [returned |-> TRUE, max |-> max, value |-> value, disabled |-> disabled,
     n_clicks |-> clicks]

NoReturn ==
    [returned |-> FALSE, max |-> None, value |-> None, disabled |-> None,
     n_clicks |-> None]

\* The playing branch of change_slider: the slider advances by one.
advance_without_stop(slider_value, play_pause_clicks, current_slider_max) ==
    SliderReturn(None, Some(slider_value + 1), Some(FALSE), None)

advance(slider_value, play_pause_clicks, current_slider_max) ==
    IF slider_value + 1 = current_slider_max
    THEN SliderReturn(None, Some(slider_value + 1), Some(TRUE), Some(play_pause_clicks + 1))
    ELSE SliderReturn(None, Some(slider_value + 1), Some(FALSE), None)

\* The branches of change_slider below the playing branch.
step_unclipped(input_triggered_id, new_slider_max, slider_value, current_slider_max) ==
    IF input_triggered_id \in {"slider-max-value-store", "slider-comp"}
    THEN IF slider_value < current_slider_max
         THEN SliderReturn(Some(new_slider_max), Some(slider_value), Some(TRUE), None)
         ELSE SliderReturn(Some(new_slider_max), Some(new_slider_max), Some(TRUE), None)
    ELSE IF input_triggered_id = "backward-step-btn"
    THEN SliderReturn(None, Some(0), Some(TRUE), None)
    ELSE IF input_triggered_id = "forward-step-btn"
    THEN SliderReturn(None, Some(new_slider_max), Some(TRUE), None)
    ELSE IF input_triggered_id = "forward-btn"
    THEN SliderReturn(None, Some(slider_value + 1), Some(TRUE), None)
    ELSE IF input_triggered_id = "backward-btn"
    THEN SliderReturn(None, Some(slider_value - 1), Some(TRUE), None)
    ELSE NoReturn

change_slider(input_triggered_id, new_slider_max, slider_value, play_pause_clicks, current_slider_max) ==
    IF input_triggered_id = "play-pause-btn" /\ ~ playing(play_pause_clicks)
    THEN SliderReturn(None, None, Some(TRUE), None)
    ELSE IF playing(play_pause_clicks) /\ slider_value # current_slider_max
    THEN advance(slider_value, play_pause_clicks, current_slider_max)
    ELSE step_unclipped(input_triggered_id, new_slider_max, slider_value,
                        current_slider_max)

change_play_pause_icon(clicks) == IF clicks % 2 = 0 THEN "play_icon" ELSE "pause_icon"

\* display_data up to the indexing of the history: data[drag_value] of a Python
\* list counts a negative index from the end and raises IndexError outside
\* -len..len-1.
display_data(drag_value, history, slider_max) ==
    IF slider_max = 0 THEN [outcome |-> "prevented"]
    ELSE IF drag_value >= Len(history) \/ drag_value < - Len(history)
    THEN [outcome |-> "raised"]
    ELSE [outcome |-> "shown",
          position |-> IF drag_value < 0 THEN drag_value + Len(history) ELSE drag_value]

\* change_slider is called and what it returns is written; the slider copies a
\* new value to drag_value, which calls display_data; a new click count calls
\* change_play_pause_icon.
call_change_slider(input_triggered_id, new_slider_max, slider_value, play_pause_clicks, history) ==
    LET out == change_slider(input_triggered_id, new_slider_max, slider_value,
                             play_pause_clicks, slider_comp.max)
        max_after == IF out.max = None THEN slider_comp.max ELSE Val(out.max)
        value_after == IF out.value = None THEN slider_value ELSE Val(out.value)
        disabled_after ==
            IF out.disabled = None THEN slider_play_interval.disabled
            ELSE Val(out.disabled)
        clicks_after == IF out.n_clicks = None THEN play_pause_clicks ELSE Val(out.n_clicks)
    IN  /\ ctx' = [triggered_id |-> input_triggered_id,
                    new_slider_max |-> new_slider_max,
                    slider_value |-> slider_value,
                    play_pause_clicks |-> play_pause_clicks,
                    current_slider_max |-> slider_comp.max]
        /\ slider_comp' = [max |-> max_after, value |-> value_after,
                           drag_value |-> value_after]
        /\ slider_play_interval' = [disabled |-> disabled_after]
        /\ play_pause_btn' = [n_clicks |-> clicks_after,
                              children |-> change_play_pause_icon(clicks_after)]
        /\ shown' = IF value_after # slider_comp.drag_value
                       \/ input_triggered_id = "slider-comp"
                    THEN display_data(value_after, history, new_slider_max)
                    ELSE shown

(***************************************************************************)
(* src/dash_integration.py: the periodic fetch.  update_data_every_minute  *)
(* is a background callback on "interval-component".n_intervals, run once  *)
(* when the page loads and once per tick of the interval; an exception in  *)
(* it leaves every output, the interval container included, as it was.     *)
(***************************************************************************)
\* What the two endpoints answer during one run.
DashResponses ==
    { r \in ApiResponses(MaxContracts) : Len(r.data) <= 1 } \cup
    { [status_code |-> 200,
       data |-> << ApiContract(1, [side |-> "put", volume |-> Some(3),
                                   openInterest |-> Some(2), gamma |-> Some(1)]),
                   ApiContract(2, [side |-> "call", volume |-> Some(3),
                                   openInterest |-> Some(2), gamma |-> Some(1)]) >>] }

DashQuotes == {None, Some(1000)}

InitDash ==
    CalcUnborn /\ ApiIdle /\ ParIdle /\ NoVisualizer /\ Layout /\ update_pending = TRUE

\* The interval component counts one more interval and stops at max_intervals.
interval_fires ==
    /\ interval.n_intervals < interval.max_intervals
    /\ interval' = [interval EXCEPT !.n_intervals = @ + 1]
    /\ update_pending' = TRUE
    /\ UNCHANGED <<ticker_store, ticker_input, n_clicks, last_lookup, options_data_store,
                   slider_max_value_store, callback, calc_vars, caller_vars, api_vars,
                   par_vars, plot_vars, slider_vars>>

\* update_data_every_minute is called with the stores as they are, and
\* fetch_new_gex_snapshot creates its API_Handler.
update_data_every_minute ==
    /\ update_pending
    /\ callback.pc = "idle"
    /\ Len(options_data_store) < MaxFetches
    /\ update_pending' = FALSE
    /\ callback' = [pc |-> "running", gex_record_list |-> options_data_store,
                    ticker_data |-> ticker_store]
    /\ api_pc' = "fetch"
    /\ response' \in DashResponses
    /\ quote' \in DashQuotes
    /\ index' = 0
    /\ option_dict' = EmptyOptionDict
    /\ api_handler' = NewApiHandler
    /\ pc' = "unborn"
    /\ data' = << >>
    /\ underlying_price' = 0
    /\ updated' = None
    /\ vol_spot_GEXs' = None
    /\ OI_spot_GEXs' = None
    /\ net_OI_GEX' = None
    /\ net_vol_GEX' = None
    /\ zero_gamma' = None
    /\ maj_pos_oi_gamma' = None
    /\ maj_pos_vol_gamma' = None
    /\ maj_neg_oi_gamma' = None
    /\ maj_neg_vol_gamma' = None
    /\ calls' = << >>
    /\ UNCHANGED <<contract_size, caller_vars, par_vars, plot_vars, slider_vars,
                   ticker_store, ticker_input,
                   n_clicks, last_lookup, options_data_store, slider_max_value_store,
                   interval>>

\* slider_max_value = len(gex_record_list)-1
new_slider_max_value_len(gex_record_list) == Len(gex_record_list)

new_slider_max_value(gex_record_list) == Len(gex_record_list) - 1

\* fetch_new_gex_snapshot returns the snapshot of a finished calculation (the plot
\* shows the two series as the Visualizer cut them); the callback appends it and
\* returns the list, a new one-shot interval and the new slider maximum.  The
\* new value of the slider-max store calls change_slider.
update_data_every_minute_returns ==
    /\ callback.pc = "running"
    /\ pc = "done"
    /\ LET gex_minute_snapshot ==
               [plot |-> [vol_spot_GEXs |->
                              limit_spot_GEX_for_plot(Val(vol_spot_GEXs), underlying_price,
                                                      LimitNumber),
                          OI_spot_GEXs |->
                              limit_spot_GEX_for_plot(Val(OI_spot_GEXs), underlying_price,
                                                      LimitNumber)],
                date |-> api_handler.options_data_date,
                time |-> api_handler.options_data_time,
                spot |-> api_handler.spot_price,
                net_vol_gex |-> net_vol_GEX,
                net_oi_gex |-> net_OI_GEX,
                zero_gamma |-> zero_gamma,
                maj_pos_vol_gamma |-> maj_pos_vol_gamma,
                maj_neg_vol_gamma |-> maj_neg_vol_gamma,
                maj_pos_oi_gamma |-> maj_pos_oi_gamma,
                maj_neg_oi_gamma |-> maj_neg_oi_gamma,
                ticker |-> callback.ticker_data[1]]
           gex_record_list == Append(callback.gex_record_list, gex_minute_snapshot)
       IN  /\ options_data_store' = gex_record_list
           /\ slider_max_value_store' = new_slider_max_value(gex_record_list)
           /\ call_change_slider("slider-max-value-store",
                                 new_slider_max_value(gex_record_list), slider_comp.value,
                                 play_pause_btn.n_clicks, gex_record_list)
    /\ interval' = [n_intervals |-> 0, max_intervals |-> 1]
    /\ callback' = [pc |-> "idle"]
    /\ UNCHANGED <<ticker_store, ticker_input, n_clicks, last_lookup, update_pending,
                   calc_vars, caller_vars, api_vars, par_vars, plot_vars, events>>

\* An exception of fetch_new_gex_snapshot leaves update_data_every_minute: no
\* output is written.
update_data_every_minute_raises ==
    /\ callback.pc = "running"
    /\ api_pc = "raised" \/ pc = "raised"
    /\ callback' = [pc |-> "idle"]
    /\ UNCHANGED <<ticker_store, ticker_input, n_clicks, last_lookup, options_data_store,
                   slider_max_value_store, interval, update_pending, calc_vars,
                   caller_vars, api_vars, par_vars, plot_vars,
                   slider_vars>>

NextDash ==
    \/ interval_fires
    \/ update_data_every_minute
    \/ update_data_every_minute_returns
    \/ update_data_every_minute_raises
    \/ NextApi

SpecDash == InitDash /\ [][NextDash]_vars

\* C20: fetching goes on after every run of update_data_every_minute, also after
\* one whose requests were unsuccessful: when no run is under way or triggered,
\* the interval is armed, so that another run follows.
C20_AnotherRunFollows ==
    (callback.pc = "idle" /\ ~ update_pending) =>
        interval.n_intervals < interval.max_intervals

(***************************************************************************)
(* The history list and the slider maximum.                                *)
(***************************************************************************)
\* A step in which update_data_every_minute returns its three outputs.
SuccessfulRun == callback.pc = "running" /\ callback'.pc = "idle" /\ pc = "done"

\* C22: a successful run of update_data_every_minute appends exactly one snapshot
\* at the end of the history list, keeps the snapshots before it as they were and
\* in order, and sets the slider-max store to len(history) - 1; no other step
\* changes either store, so the slider-max store is the index of the newest
\* snapshot whenever there is one.
C22_AppendsOneSnapshot ==
    [][/\ SuccessfulRun =>
             /\ Len(options_data_store') = Len(options_data_store) + 1
             /\ SubSeq(options_data_store', 1, Len(options_data_store)) = options_data_store
             /\ slider_max_value_store' = Len(options_data_store') - 1
       /\ ~ SuccessfulRun =>
             /\ options_data_store' = options_data_store
             /\ slider_max_value_store' = slider_max_value_store
       /\ Len(options_data_store') > 0 =>
             slider_max_value_store' = Len(options_data_store') - 1]_vars

\* Two runs have succeeded, with different snapshots.
C22_Witness ==
    /\ Len(options_data_store) = 2
    /\ options_data_store[1] # options_data_store[2]
    /\ callback.pc = "idle"

(***************************************************************************)
(* The user at the history controls, and the play interval.                *)
(***************************************************************************)
\* The user moves the slider to another value of its range.
drag_slider ==
    /\ events < MaxEvents
    /\ events' = events + 1
    /\ \E v \in 0..slider_comp.max :
          /\ v # slider_comp.value
          /\ call_change_slider("slider-comp", slider_max_value_store, v,
                                play_pause_btn.n_clicks, options_data_store)
    /\ UNCHANGED <<calc_vars, caller_vars, api_vars, par_vars, plot_vars, dash_vars>>

\* The user clicks "play-pause-btn": the button counts the click.
click_play_pause ==
    /\ events < MaxEvents
    /\ events' = events + 1
    /\ call_change_slider("play-pause-btn", slider_max_value_store, slider_comp.value,
                          play_pause_btn.n_clicks + 1, options_data_store)
    /\ UNCHANGED <<calc_vars, caller_vars, api_vars, par_vars, plot_vars, dash_vars>>

\* The user clicks one of the four other buttons.
click(button) ==
    /\ events < MaxEvents
    /\ events' = events + 1
    /\ call_change_slider(button, slider_max_value_store, slider_comp.value,
                          play_pause_btn.n_clicks, options_data_store)
    /\ UNCHANGED <<calc_vars, caller_vars, api_vars, par_vars, plot_vars, dash_vars>>

click_backward_step == click("backward-step-btn")

click_forward_step == click("forward-step-btn")

click_forward == click("forward-btn")

click_backward == click("backward-btn")

\* "slider-play-interval" counts one more interval while it is not disabled.
slider_play_interval_fires ==
    /\ ~ slider_play_interval.disabled
    /\ slider_comp.value < MaxSliderValue
    /\ call_change_slider("slider-play-interval", slider_max_value_store,
                          slider_comp.value, play_pause_btn.n_clicks, options_data_store)
    /\ UNCHANGED <<events, calc_vars, caller_vars, api_vars, par_vars, plot_vars,
                   dash_vars>>

\* A run of update_data_every_minute whose two requests are answered with a
\* quote and one complete contract.
SliderResponses ==
    { r \in DashResponses :
        /\ r.status_code = 200
        /\ Len(r.data) = 1
        /\ r.data[1].side = "call"
        /\ r.data[1].volume = Some(3)
        /\ r.data[1].openInterest = Some(2)
        /\ r.data[1].gamma = Some(1) }

update_data_every_minute_answered ==
    /\ update_data_every_minute
    /\ response' \in SliderResponses
    /\ quote' # None

NextSlider ==
    \/ drag_slider
    \/ click_play_pause
    \/ click_backward_step
    \/ click_forward_step
    \/ click_forward
    \/ click_backward
    \/ slider_play_interval_fires
    \/ interval_fires
    \/ update_data_every_minute_answered
    \/ update_data_every_minute_returns
    \/ NextApi

SpecSlider == InitDash /\ [][NextSlider]_vars

\* C23: the slider value stays within 0..max of the slider, and display_data
\* indexes the history within 0..len(history)-1 (it neither raises nor counts
\* from the end).
C23_ValueWithinRange ==
    /\ 0 <= slider_comp.value
    /\ slider_comp.value <= slider_comp.max
    /\ shown.outcome # "raised"
    /\ shown.outcome = "shown" => shown.position = slider_comp.drag_value

\* C25: the play state is consistent: the click count of "play-pause-btn" is odd,
\* and the pause icon shown, exactly when "slider-play-interval" is enabled.
C25_PlayStateConsistent ==
    /\ playing(play_pause_btn.n_clicks) <=> ~ slider_play_interval.disabled
    /\ play_pause_btn.children = "pause_icon" <=> ~ slider_play_interval.disabled

(***************************************************************************)
(* Playback.  The play interval fires as long as it is enabled, so under   *)
(* SpecPlayback an enabled interval is eventually followed.                *)
(***************************************************************************)
SpecPlayback == InitDash /\ [][NextSlider]_vars /\ WF_vars(slider_play_interval_fires)

\* The last call of change_slider was made with an odd click count and a slider
\* value below the maximum the slider had.
CalledWhilePlayingBelowMax ==
    /\ ctx.triggered_id # "none"
    /\ playing(ctx.play_pause_clicks)
    /\ ctx.slider_value < ctx.current_slider_max

\* Playback is under way below the maximum, and the user leaves the controls alone.
PlayingBelowMaxUndisturbed ==
    /\ playing(play_pause_btn.n_clicks)
    /\ ~ slider_play_interval.disabled
    /\ slider_comp.value < slider_comp.max
    /\ events = MaxEvents

StoppedAtMax ==
    /\ slider_comp.value = slider_comp.max
    /\ slider_play_interval.disabled
    /\ ~ playing(play_pause_btn.n_clicks)

\* C24: a call of change_slider with an odd click count and a slider value below
\* the current maximum advances the slider by exactly 1; when the new value is the
\* maximum it disables the play interval and makes the click count even by adding
\* 1, otherwise it enables the play interval and leaves the count.  Hence playback
\* under way below the maximum, left alone by the user, stops with the slider at
\* the maximum.
C24_PlaybackTerminates ==
    /\ [](CalledWhilePlayingBelowMax =>
            /\ slider_comp.value = ctx.slider_value + 1
            /\ slider_comp.max = ctx.current_slider_max
            /\ IF slider_comp.value = ctx.current_slider_max
               THEN /\ slider_play_interval.disabled
                    /\ play_pause_btn.n_clicks = ctx.play_pause_clicks + 1
                    /\ ~ playing(play_pause_btn.n_clicks)
               ELSE /\ ~ slider_play_interval.disabled
                    /\ play_pause_btn.n_clicks = ctx.play_pause_clicks)
    /\ PlayingBelowMaxUndisturbed ~> StoppedAtMax

\* Playback went on at a tick of the play interval and stopped at the next, at
\* the maximum.
C24_Witness ==
    /\ ctx.triggered_id = "slider-play-interval"
    /\ playing(ctx.play_pause_clicks)
    /\ ctx.slider_value >= 1
    /\ ctx.slider_value + 1 = ctx.current_slider_max
    /\ StoppedAtMax

(***************************************************************************)
(* The place of the zero-gamma.                                            *)
(***************************************************************************)
\* The first index at which the series goes from negative to positive.
FirstCrossing(series) ==
    CHOOSE i \in Crossings(series) : \A j \in Crossings(series) : i <= j

\* C26: a zero_gamma that is not None lies strictly between the two strikes of
\* the first crossing pair of the volume series, whose strikes ascend strictly:
\* strike[i] < zero_gamma < strike[i+1].
C26_StrictlyBetween ==
    (pc = "done" /\ zero_gamma # None) =>
        LET series == Val(vol_spot_GEXs)
            z == Val(zero_gamma)
        IN  /\ \A n \in 1..(Len(series) - 1) : series[n].strike < series[n + 1].strike
            /\ Crossings(series) # {}
            /\ z.den > 0
            /\ series[FirstCrossing(series)].strike * z.den < z.num
            /\ z.num < series[FirstCrossing(series) + 1].strike * z.den

\* The first crossing is not at the first strike and the zero-gamma is not a
\* whole number.
C26_Witness ==
    /\ pc = "done"
    /\ zero_gamma # None
    /\ Crossings(Val(vol_spot_GEXs)) # {}
    /\ FirstCrossing(Val(vol_spot_GEXs)) >= 2
    /\ Val(zero_gamma).num % Val(zero_gamma).den # 0

====
